---- MODULE Spec2Model ----
(***************************************************************************)
(* Book Finder: the resource query planner (buildQueryAttempts), the       *)
(* sequential fallback retriever (runSmartSearch) and the search box that  *)
(* calls it (SearchBar.runSearch).                                         *)
(*                                                                         *)
(* Text is a sequence of atoms.  An atom is either one of the characters   *)
(* the code treats specially (" ", "+", "%", ":", "-", the double quote)   *)
(* or a run of letters that every conversion of the code copies unchanged. *)
(* Subject tokens are well-formed UTF-16 text.  An optional value is a     *)
(* sequence of length at most one: << >> is undefined, <<v>> is v.         *)
(***************************************************************************)
EXTENDS Integers, Sequences, FiniteSets, TLC

----------------------------------------------------------------------------
(* Bounds *)

MaxSubjectLen == 2

MaxDocs == 2

MaxSearches == 2

MaxAttemptsSlack == 1

\* The suggestion requests of a session.
MaxSuggestionFetches == 2

\* The longest book list sorted on its own.
MaxSortLen == 3

----------------------------------------------------------------------------
(* Text helpers *)

RECURSIVE Flatten(_)
\* Concatenation of a sequence of texts (template literals, Array.join("")).
Flatten(ss) ==
  IF ss = << >> THEN << >> ELSE Head(ss) \o Flatten(Tail(ss))

RECURSIVE Join(_, _)
\* Array.prototype.join(sep)
Join(ss, sep) ==
  IF ss = << >> THEN << >>
  ELSE IF Len(ss) = 1 THEN ss[1]
  ELSE ss[1] \o sep \o Join(Tail(ss), sep)

IsSpace(a) == a = " "

RECURSIVE TrimStart(_)
TrimStart(t) ==
  IF t # << >> /\ IsSpace(Head(t)) THEN TrimStart(Tail(t)) ELSE t

RECURSIVE TrimEnd(_)
TrimEnd(t) ==
  IF t # << >> /\ IsSpace(t[Len(t)]) THEN TrimEnd(SubSeq(t, 1, Len(t) - 1)) ELSE t

\* String.prototype.trim()
Trim(t) == TrimEnd(TrimStart(t))

\* encodeURIComponent, one atom: the unreserved set (letters, digits, - _ . ! ~ * ' ( ))
\* is copied, everything else is percent-encoded.
EncodeAtom(a) ==
  CASE a = " "  -> "%20"
    [] a = "+"  -> "%2B"
    [] a = "%"  -> "%25"
    [] a = ":"  -> "%3A"
    [] a = "\"" -> "%22"
    [] OTHER    -> a

encodeURIComponent(t) == [n \in 1..Len(t) |-> EncodeAtom(t[n])]

\* decodeURIComponent, one atom: a percent escape becomes its character.
DecodeAtom(a) ==
  CASE a = "%20" -> " "
    [] a = "%2B" -> "+"
    [] a = "%25" -> "%"
    [] a = "%3A" -> ":"
    [] a = "%22" -> "\""
    [] OTHER     -> a

decodeURIComponent(t) == [n \in 1..Len(t) |-> DecodeAtom(t[n])]

RECURSIVE SplitOn(_, _, _)
\* String.prototype.split(sep) for a one-atom separator; cur is the part being read.
SplitOn(t, sep, cur) ==
  IF t = << >> THEN << cur >>
  ELSE IF Head(t) = sep THEN << cur >> \o SplitOn(Tail(t), sep, << >>)
  ELSE SplitOn(Tail(t), sep, Append(cur, Head(t)))

Split(t, sep) == SplitOn(t, sep, << >>)

SubjectPrefix == << "subject", ":" >>

\* p.replace(/^subject:/, "")
StripSubjectPrefix(p) ==
  IF Len(p) >= 2 /\ SubSeq(p, 1, 2) = SubjectPrefix THEN SubSeq(p, 3, Len(p)) ELSE p

----------------------------------------------------------------------------
(* The static profile table *)

ResourceTypeKey ==
  { "study_guide", "textbook", "lecture_notes", "past_papers",
    "problem_sets", "reference", "open_textbook", "case_studies" }

RESOURCE_MAP ==
  [ study_guide |->
      [ slugs |-> << <<"study", " ", "guides">>, <<"study", "-", "guides">> >>,
        keywords |-> << <<"study", " ", "guide">>, <<"revision", " ", "guide">>,
                        <<"exam", " ", "guide">>, <<"study", " ", "notes">> >> ],
    textbook |->
      [ slugs |-> << <<"textbooks">>, <<"text", "-", "book">>, <<"text", " ", "books">> >>,
        keywords |-> << <<"textbook">>, <<"coursebook">>,
                        <<"introduction", " ", "to">>, <<"for", " ", "students">> >> ],
    lecture_notes |->
      [ slugs |-> << <<"lecture", " ", "notes">>, <<"lecture", "-", "notes">> >>,
        keywords |-> << <<"lecture", " ", "notes">>, <<"class", " ", "notes">>,
                        <<"course", " ", "notes">>, <<"lecture">> >> ],
    past_papers |->
      [ slugs |-> << <<"past", " ", "papers">>, <<"exam", " ", "papers">>,
                     <<"previous", " ", "year", " ", "papers">> >>,
        keywords |-> << <<"past", " ", "papers">>, <<"exam", " ", "paper">>,
                        <<"question", " ", "paper">>,
                        <<"previous", " ", "year", " ", "paper">> >> ],
    problem_sets |->
      [ slugs |-> << <<"problem", " ", "sets">>, <<"exercise", " ", "problems">> >>,
        keywords |-> << <<"problem", " ", "set">>, <<"exercise", " ", "problems">>,
                        <<"worked", " ", "problems">>, <<"practice", " ", "problems">> >> ],
    reference |->
      [ slugs |-> << <<"reference">>, <<"handbooks">>, <<"dictionaries">>,
                     <<"encyclopedias">> >>,
        keywords |-> << <<"reference">>, <<"handbook">>, <<"dictionary">>,
                        <<"encyclopedia">> >> ],
    open_textbook |->
      [ slugs |-> << <<"open", " ", "textbooks">>, <<"open", "-", "textbooks">>,
                     <<"open", " ", "educational", " ", "resources">> >>,
        keywords |-> << <<"open", " ", "textbook">>,
                        <<"open", " ", "educational", " ", "resources">>,
                        <<"open", " ", "access", " ", "textbook">> >> ],
    case_studies |->
      [ slugs |-> << <<"case", " ", "studies">>, <<"case", "-", "studies">> >>,
        keywords |-> << <<"case", " ", "study">>, <<"case", " ", "studies">>,
                        <<"business", " ", "case", " ", "study">>,
                        <<"clinical", " ", "case">> >> ] ]

\* A category with no entry in RESOURCE_MAP (the type is erased at run time;
\* SearchBar passes filters.resourceType "as any").
UnknownCategory == "unknown_type"

Categories == ResourceTypeKey \cup { UnknownCategory }

----------------------------------------------------------------------------
(* buildQueryAttempts *)

\* opts.subjectSlug?.trim()
SubjectOf(opts) ==
  IF opts.subjectSlug = << >> THEN << >> ELSE << Trim(opts.subjectSlug[1]) >>

\* A variant that takes every defined subject, the empty string included, as supplied.
TruthyDefined(subject) == subject # << >>

\* if (subject): defined and not the empty string
Truthy(subject) == subject # << >> /\ subject[1] # << >>

\* The "subject" attempt for a slug combined with the subject token.
CombinedSubjectAttempt(slug, subject) ==
  [ type |-> "subject",
    q |-> SubjectPrefix \o encodeURIComponent(slug) \o << "+" >> \o
          SubjectPrefix \o encodeURIComponent(subject),
    description |-> SubjectPrefix \o slug \o << " ", "AND", " " >> \o
                    SubjectPrefix \o subject ]

\* The "subject" attempt for a slug alone.
AloneSubjectAttempt(slug) ==
  [ type |-> "subject",
    q |-> SubjectPrefix \o encodeURIComponent(slug),
    description |-> SubjectPrefix \o slug ]

\* A variant that emits the slug alone before the slug combined with the subject.
SlugAttemptsAloneFirst(slug, subject) ==
  << AloneSubjectAttempt(slug) >>
    \o (IF Truthy(subject) THEN << CombinedSubjectAttempt(slug, subject[1]) >> ELSE << >>)

\* One iteration of the loop over map.slugs.
SlugAttempts(slug, subject) ==
  (IF Truthy(subject) THEN << CombinedSubjectAttempt(slug, subject[1]) >> ELSE << >>)
    \o << AloneSubjectAttempt(slug) >>

SubjectAttempts(slugs, subject) ==
  Flatten([n \in 1..Len(slugs) |-> SlugAttempts(slugs[n], subject)])

\* map.keywords.map((k) => `"${k}"`).join(" OR ")
KeywordPhrase(keywords) ==
  Join([n \in 1..Len(keywords) |-> << "\"" >> \o keywords[n] \o << "\"" >>],
       << " ", "OR", " " >>)

\* `q: (${map.keywords.join(" OR ")})`
KeywordDescription(keywords) ==
  << "q", ":", " ", "(" >> \o Join(keywords, << " ", "OR", " " >>) \o << ")" >>

KeywordAttempts(keywords, subject) ==
  IF Truthy(subject)
  THEN << [ type |-> "keyword",
            q |-> encodeURIComponent(KeywordPhrase(keywords) \o << " " >> \o subject[1]),
            description |-> KeywordDescription(keywords) \o << " " >> \o subject[1] ],
          [ type |-> "keyword",
            q |-> encodeURIComponent(KeywordPhrase(keywords)),
            description |-> KeywordDescription(keywords) ] >>
  ELSE << [ type |-> "keyword",
            q |-> encodeURIComponent(KeywordPhrase(keywords)),
            description |-> KeywordDescription(keywords) ] >>

\* RESOURCE_MAP[resourceType] is undefined for a key the table lacks.
HasProfile(resourceType) == resourceType \in DOMAIN RESOURCE_MAP

\* A variant that reads a missing profile as an empty one instead of failing.
buildQueryAttemptsLenient(resourceType, opts) ==
  IF ~HasProfile(resourceType)
  THEN [ threw |-> FALSE, attempts |-> KeywordAttempts(<< >>, SubjectOf(opts)) ]
  ELSE [ threw |-> FALSE,
         attempts |-> SubjectAttempts(RESOURCE_MAP[resourceType].slugs, SubjectOf(opts))
                      \o KeywordAttempts(RESOURCE_MAP[resourceType].keywords,
                                         SubjectOf(opts)) ]

\* The result of a call: threw is TRUE when map.slugs raised a TypeError
\* (map undefined), otherwise attempts is the returned plan.
buildQueryAttempts(resourceType, opts) ==
  IF ~HasProfile(resourceType)
  THEN [ threw |-> TRUE, attempts |-> << >> ]
  ELSE [ threw |-> FALSE,
         attempts |-> SubjectAttempts(RESOURCE_MAP[resourceType].slugs, SubjectOf(opts))
                      \o KeywordAttempts(RESOURCE_MAP[resourceType].keywords,
                                         SubjectOf(opts)) ]

----------------------------------------------------------------------------
(* Documents returned by the search endpoint *)

\* Raw document records; a field the record lacks is << >>.
DocA ==
  [ key |-> << "k1" >>, first_publish_year |-> << 2001 >>,
    has_fulltext |-> << TRUE >>, subject |-> << << "Science" >> >> ]

DocB ==
  [ key |-> << "k2" >>, first_publish_year |-> << >>,
    has_fulltext |-> << >>, subject |-> << >> ]

\* A record of a work known to have no full text, first published before year 1.
DocC ==
  [ key |-> << "k3" >>, first_publish_year |-> << -300 >>,
    has_fulltext |-> << FALSE >>, subject |-> << >> ]

DocPool == { DocA, DocB }

RECURSIVE SeqsUpTo(_, _)
SeqsUpTo(S, n) ==
  IF n = 0 THEN { << >> }
  ELSE LET shorter == SeqsUpTo(S, n - 1)
       IN  shorter \cup { Append(q, x) : q \in { r \in shorter : Len(r) = n - 1 }, x \in S }

\* A response page large enough for the default threshold.
SixDocs == << DocA, DocB, DocC, DocA, DocB, DocA >>

\* data.docs of the responses a directly called retriever may receive: every
\* number of records with and without the fields, the complete ones first
\* (the retriever never looks at the order), and the large page.
DirectDocLists ==
  { q \in SeqsUpTo(DocPool, MaxDocs) :
      \A n \in 1..(Len(q) - 1) : q[n] = DocB => q[n + 1] = DocB }
    \cup { SixDocs }

\* data.docs of the responses a search started from the search box may receive.
BarDocLists == { << >>, SixDocs }

DocLists(caller) == IF caller = "direct" THEN DirectDocLists ELSE BarDocLists

\* The record filters a caller may pass as opts.clientSideFilter.
RecordFilters == { "has_fulltext" }

\* The predicate named f applied to one document (its result read as a JS truth value).
FilterPasses(f, item) ==
  CASE f = "has_fulltext" -> item.has_fulltext = << TRUE >>
    [] OTHER -> TRUE

\* if (opts.clientSideFilter) docs = docs.filter(opts.clientSideFilter)
ApplyClientSideFilter(opts, docs) ==
  IF opts.clientSideFilter = << >> THEN docs
  ELSE SelectSeq(docs, LAMBDA d : FilterPasses(opts.clientSideFilter[1], d))

----------------------------------------------------------------------------
(* runSmartSearch: the request of one attempt *)

\* A request is the list of query parameters of /search.json, in order.
LimitParam(limit) == << "limit", << ToString(limit) >> >>

RequestFor(a, limit) ==
  IF a.type = "subject"
  THEN LET parts == Split(decodeURIComponent(a.q), "+")
       IN  [n \in 1..Len(parts) |-> << "subject", StripSubjectPrefix(parts[n]) >>]
             \o << LimitParam(limit) >>
  ELSE << << "q", decodeURIComponent(a.q) >>, LimitParam(limit) >>

\* opts.limit ?? 20
DefaultLimit == 20

\* opts.minResults ?? 6
DefaultMinResults == 6

OrDefault(opt, default) == IF opt = << >> THEN default ELSE opt[1]

Min(a, b) == IF a <= b THEN a ELSE b

\* Math.max
Max(a, b) == IF a >= b THEN a ELSE b

\* Math.min(opts.maxAttempts ?? attempts.length, attempts.length)
CapAttempts(opts, attempts) ==
  Min(OrDefault(opts.maxAttempts, Len(attempts)), Len(attempts))

\* A variant that accepts only a count above the threshold.
MeetsThresholdStrict(docs, minResults) == Len(docs) > minResults

\* docs.length >= minResults
MeetsThreshold(docs, minResults) == Len(docs) >= minResults

\* setTimeout(r, 120 + i * 30)
PacingDelay(i) == 120 + i * 30

----------------------------------------------------------------------------
(* State *)

VARIABLES
  inv,              \* the invocations of runSmartSearch / runSearch, by number
  filters,          \* the filters prop of SearchBar
  query,            \* the query prop of SearchBar
  books,            \* the displayed book list (setBooks)
  booksFrom,        \* history: the invocation whose setBooks call wrote books, 0 if none
  loading,          \* SearchBar loading state
  searchAbort,      \* searchAbort.current: the invocation owning the controller, 0 if null
  aborted,          \* the invocations whose AbortController has been aborted
  suggestions,      \* SearchBar suggestions state
  showSuggestions,  \* SearchBar showSuggestions state
  highlight,        \* SearchBar highlight state: the highlighted suggestion's index or -1
  debounced,        \* useDebounce(query, 250): the debounced query
  suggestionAbort,  \* suggestionAbort.current: the suggestion request owning it, 0 if null
  sugFetch,         \* the suggestion requests issued, by number
  app               \* AppProvider's state and the localStorage entries behind it

\* The state of the suggestion list's keyboard handling and requests.
suggestVars == << highlight, debounced, suggestionAbort, sugFetch >>

vars ==
  << inv, filters, query, books, booksFrom, loading, searchAbort, aborted,
     suggestions, showSuggestions, suggestVars, app >>

barVars ==
  << filters, query, books, booksFrom, loading, searchAbort, aborted,
     suggestions, showSuggestions, suggestVars, app >>

Searches == 1..MaxSearches

SuggestionFetches == 1..MaxSuggestionFetches

\* A suggestion request not yet issued.  Fields:
\*   state  "none", "pending" (fetch or body read outstanding), "done",
\*          "failed" or "aborted"
\*   title  the debounced query the request was issued for
NoFetch == [ state |-> "none", title |-> << >> ]

NoOpts ==
  [ subjectSlug |-> << >>, limit |-> << >>, minResults |-> << >>,
    maxAttempts |-> << >>, clientSideFilter |-> << >> ]

NoFilters ==
  [ sortByYear |-> "", language |-> "", category |-> << >>, format |-> "",
    resourceType |-> "" ]

\* An invocation that has not been made yet.
\*   caller       "none", "direct" (runSmartSearch called on its own) or "runSearch"
\*   pc           where the invocation is suspended or how it ended
\*   attempts .. url   the locals of runSmartSearch
\*   timer        the pending pacing timeout, in ms
\*   outcome      the value runSmartSearch returned
\*   final, filters    the locals runSearch captured
\*   signal       whether the invocation's fetch was given controller.signal
\*   requests     history: the attempt numbers whose request was issued
\*   completed    history: the attempts whose fetch has settled
\*   evals        history: the times the result count was compared with minResults
\*   firstMet, metDocs      history: the first attempt whose filtered count reached
\*                          minResults (0 if none) and its filtered documents
\*   lastFiltered history: the filtered documents of the last settled attempt
\*   lastRawCount history: the size of the last settled attempt's raw response
\*   bestFiltered history: the largest filtered count of the settled attempts
\*   abortedAt    history: completed when the invocation's controller was aborted
IdleInv ==
  [ caller |-> "none", pc |-> "idle", resourceType |-> "", opts |-> NoOpts,
    attempts |-> << >>, limit |-> 0, minResults |-> 0, maxAttempts |-> 0,
    i |-> 0, lastResults |-> << >>, url |-> << >>, timer |-> << >>,
    outcome |-> << >>, final |-> << >>, filters |-> NoFilters,
    signal |-> FALSE,
    requests |-> << >>, completed |-> 0, evals |-> 0, firstMet |-> 0,
    metDocs |-> << >>, lastFiltered |-> << >>, lastRawCount |-> 0,
    bestFiltered |-> 0, abortedAt |-> << >> ]

----------------------------------------------------------------------------
(* runSmartSearch, one step at a time; r is the invocation's record *)

\* A variant whose fallback carries no documents.
FallbackOutcomeNoDocs(r) ==
  [ docs |-> << >>, attempt |-> r.maxAttempts,
    description |-> << "fallback" >>, url |-> << >> ]

\* The outcome returned after the loop.
FallbackOutcome(r) ==
  [ docs |-> r.lastResults, attempt |-> r.maxAttempts,
    description |-> << "fallback" >>, url |-> << >> ]

\* A variant whose loop runs over the whole plan, whatever maxAttempts says.
LoopHeadUncapped(r, i) ==
  IF i < Len(r.attempts)
  THEN [ r EXCEPT !.i = i, !.pc = "fetch",
                  !.url = << RequestFor(r.attempts[i + 1], r.limit) >>,
                  !.requests = Append(@, i + 1) ]
  ELSE [ r EXCEPT !.i = i, !.pc = "returned", !.url = << >>,
                  !.outcome = << FallbackOutcome(r) >> ]

\* The head of the for loop at index i: issue the request of attempts[i]
\* (the code's 0-based index) or leave the loop and return the fallback.
LoopHead(r, i) ==
  IF i < r.maxAttempts
  THEN [ r EXCEPT !.i = i, !.pc = "fetch",
                  !.url = << RequestFor(r.attempts[i + 1], r.limit) >>,
                  !.requests = Append(@, i + 1) ]
  ELSE [ r EXCEPT !.i = i, !.pc = "returned", !.url = << >>,
                  !.outcome = << FallbackOutcome(r) >> ]

\* The call, up to the first await.
CallSmartSearch(r, resourceType, opts) ==
  LET plan == buildQueryAttempts(resourceType, opts)
  IN  IF plan.threw
      THEN [ r EXCEPT !.resourceType = resourceType, !.opts = opts, !.pc = "threw" ]
      ELSE LoopHead([ r EXCEPT !.resourceType = resourceType, !.opts = opts,
                               !.attempts = plan.attempts,
                               !.limit = OrDefault(opts.limit, DefaultLimit),
                               !.minResults = OrDefault(opts.minResults, DefaultMinResults),
                               !.maxAttempts = CapAttempts(opts, plan.attempts),
                               !.lastResults = << >> ], 0)

\* A variant that requests the failed attempt again.
AttemptFailedRetries(r) ==
  LoopHead([ r EXCEPT !.lastResults = << >> ], r.i)

\* A variant that keeps the previous attempt's results when an attempt fails.
AttemptFailedKeepsLast(r) ==
  LoopHead(r, r.i + 1)

\* A variant without the catch: the failure leaves runSmartSearch as an error.
AttemptFailedRethrows(r) ==
  [ r EXCEPT !.pc = "threw" ]

\* if (!res.ok) { lastResults = []; continue; }   and   catch (e) { lastResults = []; continue; }
AttemptFailed(r) ==
  LoopHead([ r EXCEPT !.lastResults = << >> ], r.i + 1)

\* const res = await fetch(url) resolved with res.ok
AwaitJson(r) == [ r EXCEPT !.pc = "json" ]

\* A variant that compares the size of the raw response with minResults and
\* filters afterwards.
EvaluateAttemptCountsRaw(r, isArray, dataDocs) ==
  LET raw  == IF isArray THEN dataDocs ELSE << >>
      docs == ApplyClientSideFilter(r.opts, raw)
  IN  IF MeetsThreshold(raw, r.minResults)
      THEN [ r EXCEPT !.lastResults = docs, !.pc = "returned",
                      !.outcome = << [ docs |-> docs, attempt |-> r.i + 1,
                                       description |-> r.attempts[r.i + 1].description,
                                       url |-> r.url ] >> ]
      ELSE [ r EXCEPT !.lastResults = docs, !.pc = "delay",
                      !.timer = << PacingDelay(r.i) >> ]

\* A variant without the early return: an accepted attempt is followed by the
\* pacing delay and the next attempt like any other.
EvaluateAttemptKeepsGoing(r, isArray, dataDocs) ==
  LET docs == ApplyClientSideFilter(r.opts, IF isArray THEN dataDocs ELSE << >>)
  IN  [ r EXCEPT !.lastResults = docs, !.pc = "delay",
                 !.timer = << PacingDelay(r.i) >> ]

\* The body after await res.json(): isArray tells whether data.docs is an array.
EvaluateAttempt(r, isArray, dataDocs) ==
  LET docs == ApplyClientSideFilter(r.opts, IF isArray THEN dataDocs ELSE << >>)
  IN  IF MeetsThreshold(docs, r.minResults)
      THEN [ r EXCEPT !.lastResults = docs, !.pc = "returned",
                      !.outcome = << [ docs |-> docs, attempt |-> r.i + 1,
                                       description |-> r.attempts[r.i + 1].description,
                                       url |-> r.url ] >> ]
      ELSE [ r EXCEPT !.lastResults = docs, !.pc = "delay",
                      !.timer = << PacingDelay(r.i) >> ]

\* The pacing timeout fired: i++ and the loop head.
\* A variant whose timeout never resolves the awaited promise.
AfterDelayNeverResolves(r) == r

AfterDelay(r) ==
  LoopHead([ r EXCEPT !.timer = << >> ], r.i + 1)

----------------------------------------------------------------------------
(* SearchBar: from raw documents to the displayed books *)

\* One raw document as a Book.  title, author_name, cover_i, isbn, publisher and
\* edition_key are copied as they are and are left out of the record.
MapDoc(d) ==
  [ key |-> IF d.key # << >> THEN d.key
            ELSE << "untitled", "-" >> \o
                 (IF d.first_publish_year = << >> THEN << >>
                  ELSE << ToString(d.first_publish_year[1]) >>),
    first_publish_year |-> d.first_publish_year,
    subject |-> d.subject,
    has_fulltext |-> (d.has_fulltext = << TRUE >>) ]

mapDocsToBooks(docs) == [n \in 1..Len(docs) |-> MapDoc(docs[n])]

\* filters.format
FilterFormat(bs, format) ==
  CASE format = "ebook" -> SelectSeq(bs, LAMBDA b : b.has_fulltext)
    [] format = "print" -> SelectSeq(bs, LAMBDA b : ~b.has_fulltext)
    [] OTHER -> bs

\* (b.first_publish_year ?? 0) - (a.first_publish_year ?? 0)
CompareNewest(a, b) ==
  OrDefault(b.first_publish_year, 0) - OrDefault(a.first_publish_year, 0)

\* (a.first_publish_year ?? Infinity) - (b.first_publish_year ?? Infinity);
\* Infinity - Infinity is NaN, which sort reads as 0.
CompareOldest(a, b) ==
  CASE a.first_publish_year = << >> /\ b.first_publish_year = << >> -> 0
    [] a.first_publish_year = << >> -> 1
    [] b.first_publish_year = << >> -> -1
    [] OTHER -> a.first_publish_year[1] - b.first_publish_year[1]

\* The compare function runSearch passes to sort for filters.sortByYear = order.
Compare(order, a, b) ==
  IF order = "newest" THEN CompareNewest(a, b) ELSE CompareOldest(a, b)

RECURSIVE InsertSorted(_, _, _)
\* x goes after every element that does not compare greater than it (stable).
InsertSorted(sorted, x, order) ==
  IF sorted = << >> THEN << x >>
  ELSE IF Compare(order, Head(sorted), x) > 0 THEN << x >> \o sorted
  ELSE << Head(sorted) >> \o InsertSorted(Tail(sorted), x, order)

RECURSIVE SortWith(_, _)
\* Array.prototype.sort(compare), a stable sort
SortWith(bs, order) ==
  IF bs = << >> THEN << >>
  ELSE InsertSorted(SortWith(SubSeq(bs, 1, Len(bs) - 1), order), bs[Len(bs)], order)

\* filters.sortByYear
SortByYear(bs, sortByYear) ==
  IF sortByYear \in { "newest", "oldest" } THEN SortWith(bs, sortByYear) ELSE bs

ToLowerAtom(a) == IF a = "Science" THEN "science" ELSE a

toLowerCase(t) == [n \in 1..Len(t) |-> ToLowerAtom(t[n])]

\* String.prototype.includes
Includes(t, c) ==
  \E k \in 0..(Len(t) - Len(c)) : SubSeq(t, k + 1, k + Len(c)) = c

\* filters.category && filters.category.trim()
HasCategory(f) == f.category # << >> /\ Trim(f.category[1]) # << >>

\* The permissive category filter of the plain search.
FilterCategory(mapped, f) ==
  IF ~HasCategory(f) THEN mapped
  ELSE LET cat      == toLowerCase(Trim(f.category[1]))
           filtered == SelectSeq(mapped, LAMBDA b :
                         \E n \in 1..Len(b.subject) : Includes(toLowerCase(b.subject[n]), cat))
       IN  IF filtered = << >> /\ Len(mapped) > 0 THEN mapped ELSE filtered

\* What runSearch passes to setBooks after a smart search returned res.
SmartBooks(docs, f) ==
  SortByYear(FilterFormat(mapDocsToBooks(docs), f.format), f.sortByYear)

\* What runSearch passes to setBooks after the plain search received data.docs.
PlainBooks(docs, f) ==
  SortByYear(FilterFormat(FilterCategory(mapDocsToBooks(docs), f), f.format), f.sortByYear)

\* buildSearchUrl(query, filters), as the list of query parameters
buildSearchUrl(q, f) ==
  << << "q", q >> >>
    \o (IF f.language # "" THEN << << "language", << f.language >> >> >> ELSE << >>)
    \o (IF HasCategory(f) THEN << << "subject", Trim(f.category[1]) >> >> ELSE << >>)
    \o << << "limit", << "80" >> >> >>

\* The options runSearch passes to runSmartSearch.
SearchBarOpts(f) ==
  [ subjectSlug |-> f.category, limit |-> << 40 >>, minResults |-> << 6 >>,
    maxAttempts |-> << >>, clientSideFilter |-> << >> ]

----------------------------------------------------------------------------
(* Actions of runSmartSearch *)

\* The rest of runSearch once "await runSmartSearch(...)" has settled for
\* invocation s with record r2: the mapping, setBooks and the finally block.
\* An invocation called directly has no continuation.
SmartSettled(s, r2) ==
  IF r2.caller = "runSearch" /\ r2.pc = "returned"
  THEN /\ books' = SmartBooks(r2.outcome[1].docs, r2.filters)
       /\ booksFrom' = s
       /\ showSuggestions' = FALSE
       /\ suggestions' = << >>
       /\ loading' = FALSE
       /\ UNCHANGED << suggestVars, app, filters, query, searchAbort, aborted >>
  ELSE IF r2.caller = "runSearch" /\ r2.pc = "threw"
  THEN /\ books' = << >>
       /\ booksFrom' = s
       /\ loading' = FALSE
       /\ UNCHANGED << suggestVars, app, filters, query, searchAbort, aborted,
                  suggestions, showSuggestions >>
  ELSE UNCHANGED barVars

\* History of a settled attempt whose response had rawCount documents, fd of
\* them passing the record filter.
Settled(r, r2, fd, rawCount) ==
  [ r2 EXCEPT !.completed = r.completed + 1, !.lastFiltered = fd,
              !.lastRawCount = rawCount,
              !.bestFiltered = IF Len(fd) > r.bestFiltered THEN Len(fd) ELSE r.bestFiltered ]

\* runSmartSearch(resourceType, opts) called on its own.
Call(s) ==
  /\ inv[s].caller = "direct"
  /\ inv[s].pc = "idle"
  /\ LET r2 == CallSmartSearch(inv[s], inv[s].resourceType, inv[s].opts)
     IN  /\ inv' = [inv EXCEPT ![s] = r2]
         /\ SmartSettled(s, r2)

\* fetch resolved with a response whose ok is false.
FetchNotOk(s) ==
  /\ inv[s].pc = "fetch"
  /\ LET r2 == Settled(inv[s], AttemptFailed(inv[s]), << >>, 0)
     IN  /\ inv' = [inv EXCEPT ![s] = r2]
         /\ SmartSettled(s, r2)

\* fetch rejected: a network failure.
FetchRejected(s) ==
  /\ inv[s].pc = "fetch"
  /\ LET r2 == Settled(inv[s], AttemptFailed(inv[s]), << >>, 0)
     IN  /\ inv' = [inv EXCEPT ![s] = r2]
         /\ SmartSettled(s, r2)

\* fetch resolved with res.ok: the invocation awaits res.json().
FetchOk(s) ==
  /\ inv[s].pc = "fetch"
  /\ inv' = [inv EXCEPT ![s] = AwaitJson(inv[s])]
  /\ UNCHANGED barVars

\* res.json() rejected (a body that is not JSON) or data is null.
JsonRejected(s) ==
  /\ inv[s].pc = "json"
  /\ LET r2 == Settled(inv[s], AttemptFailed(inv[s]), << >>, 0)
     IN  /\ inv' = [inv EXCEPT ![s] = r2]
         /\ SmartSettled(s, r2)

\* res.json() resolved with data.
JsonResolved(s) ==
  /\ inv[s].pc = "json"
  /\ \E isArray \in BOOLEAN, dataDocs \in DocLists(inv[s].caller) :
       /\ ~isArray => dataDocs = << >>
       /\ LET r  == inv[s]
              fd == IF ~isArray \/ r.opts.clientSideFilter = << >>
                    THEN dataDocs
                    ELSE SelectSeq(dataDocs,
                           LAMBDA d : FilterPasses(r.opts.clientSideFilter[1], d))
              met == Len(fd) >= OrDefault(r.opts.minResults, DefaultMinResults)
              r2 == [ Settled(r, EvaluateAttempt(r, isArray, dataDocs), fd, Len(dataDocs))
                        EXCEPT !.evals = r.evals + 1,
                               !.firstMet = IF r.firstMet = 0 /\ met THEN r.i + 1 ELSE r.firstMet,
                               !.metDocs = IF r.firstMet = 0 /\ met THEN fd ELSE r.metDocs ]
          IN  /\ inv' = [inv EXCEPT ![s] = r2]
              /\ SmartSettled(s, r2)

\* The pacing timeout fired.
DelayElapsed(s) ==
  /\ inv[s].pc = "delay"
  /\ LET r2 == AfterDelay(inv[s])
     IN  /\ inv' = [inv EXCEPT ![s] = r2]
         /\ SmartSettled(s, r2)

----------------------------------------------------------------------------
(* AppContext: the saved lists and their localStorage entries *)

\* The record of DocA's work in a response that lacks its year: another book
\* with the same key.
BookARevised == MapDoc([ DocA EXCEPT !.first_publish_year = << >> ])

\* The books a card can show.
AppBooks == { MapDoc(DocA), MapDoc(DocB), BookARevised }

\* JSON.stringify of a Book, as its name/value entries in property order:
\* a property whose value is undefined is left out.
StringifyBook(b) ==
  << << "key", b.key >> >>
    \o (IF b.first_publish_year = << >> THEN << >>
        ELSE << << "first_publish_year", b.first_publish_year[1] >> >>)
    \o << << "subject", b.subject >>, << "has_fulltext", b.has_fulltext >> >>

\* JSON.stringify(list)
JSONstringify(list) == [n \in 1..Len(list) |-> StringifyBook(list[n])]

HasEntry(e, name) == \E n \in 1..Len(e) : e[n][1] = name

EntryValue(e, name) == e[CHOOSE n \in 1..Len(e) : e[n][1] = name][2]

\* JSON.parse of one object: a property the text lacks is undefined.
ParseBook(e) ==
  [ key |-> EntryValue(e, "key"),
    first_publish_year |-> IF HasEntry(e, "first_publish_year")
                           THEN << EntryValue(e, "first_publish_year") >>
                           ELSE << >>,
    subject |-> EntryValue(e, "subject"),
    has_fulltext |-> EntryValue(e, "has_fulltext") ]

\* JSON.parse(raw)
JSONparse(text) == [n \in 1..Len(text) |-> ParseBook(text[n])]

\* localStorage before the first visit: getItem returns null for every key.
EmptyStorage == [ favorites |-> << >>, repository |-> << >>, studentMode |-> << >> ]

\* A variant of the initialiser that always starts with an empty list.
LoadListEmpty(raw) == << >>

\* The useState initialiser of favorites and repository:
\* raw ? JSON.parse(raw) : []
LoadList(raw) == IF raw = << >> THEN << >> ELSE JSONparse(raw[1])

\* The useState initialiser of studentMode: raw ? JSON.parse(raw) : false
LoadFlag(raw) == IF raw = << >> THEN FALSE ELSE raw[1] = << "true" >>

\* try { localStorage.setItem(key, text) } catch {}: ok tells whether the
\* write went through.
SetItem(storage, key, text, ok) ==
  IF ok THEN [ storage EXCEPT ![key] = << text >> ] ELSE storage

\* AppProvider mounted over the given storage: the initialisers, then the
\* persistence effects of the first render, in their order.
\*   op           history: the handler that ran last
\*   writeFailed  history: some setItem has thrown
Mount(storage, okF, okR, okS) ==
  LET fav == LoadList(storage.favorites)
      rep == LoadList(storage.repository)
      sm  == LoadFlag(storage.studentMode)
      st1 == SetItem(storage, "favorites", JSONstringify(fav), okF)
      st2 == SetItem(st1, "repository", JSONstringify(rep), okR)
      st3 == SetItem(st2, "studentMode", << IF sm THEN "true" ELSE "false" >>, okS)
  IN  [ favorites |-> fav, repository |-> rep, studentMode |-> sm,
        mode |-> IF sm THEN "student" ELSE "normal",
        storage |-> st3, op |-> "mount",
        writeFailed |-> ~(okF /\ okR /\ okS) ]

\* The application on a first visit.
FirstVisit == Mount(EmptyStorage, TRUE, TRUE, TRUE)

\* setFavorites(next) and the effect that persists favorites.
SetFavorites(a, next, ok) ==
  [ a EXCEPT !.favorites = next,
             !.storage = SetItem(a.storage, "favorites", JSONstringify(next), ok),
             !.writeFailed = a.writeFailed \/ ~ok ]

\* setRepository(next) and the effect that persists repository.
SetRepository(a, next, ok) ==
  [ a EXCEPT !.repository = next,
             !.storage = SetItem(a.storage, "repository", JSONstringify(next), ok),
             !.writeFailed = a.writeFailed \/ ~ok ]

\* list.some((f) => f.key === key)
SomeKey(list, key) == \E n \in 1..Len(list) : list[n].key = key

\* list.filter((f) => f.key !== key)
WithoutKey(list, key) == SelectSeq(list, LAMBDA f : f.key # key)

\* BookCard.isSaved for the card of book.
isSaved(a, book) ==
  LET list == IF a.studentMode THEN a.repository ELSE a.favorites
  IN  \E n \in 1..Len(list) : list[n].key = book.key

\* A variant that looks for the book itself instead of its key.
toggleSaveByIdentity(a, book, ok) ==
  IF a.studentMode
  THEN IF \E n \in 1..Len(a.repository) : a.repository[n] = book
       THEN SetRepository(a, SelectSeq(a.repository, LAMBDA r : r # book), ok)
       ELSE SetRepository(a, << book >> \o a.repository, ok)
  ELSE IF \E n \in 1..Len(a.favorites) : a.favorites[n] = book
       THEN SetFavorites(a, SelectSeq(a.favorites, LAMBDA f : f # book), ok)
       ELSE SetFavorites(a, << book >> \o a.favorites, ok)

\* BookCard.toggleSave for the card of book.
toggleSave(a, book, ok) ==
  IF a.studentMode
  THEN IF SomeKey(a.repository, book.key)
       THEN SetRepository(a, WithoutKey(a.repository, book.key), ok)
       ELSE SetRepository(a, << book >> \o a.repository, ok)
  ELSE IF SomeKey(a.favorites, book.key)
       THEN SetFavorites(a, WithoutKey(a.favorites, book.key), ok)
       ELSE SetFavorites(a, << book >> \o a.favorites, ok)

\* Favorites modal: items
Items(a) == IF a.studentMode THEN a.repository ELSE a.favorites

\* A variant of setItems that writes the favourites whatever the mode.
setItemsFavorites(a, next, ok) == SetFavorites(a, next, ok)

\* Favorites modal: setItems
setItems(a, next, ok) ==
  IF a.studentMode THEN SetRepository(a, next, ok) ELSE SetFavorites(a, next, ok)

\* Favorites modal: remove(key)
remove(a, key, ok) == setItems(a, WithoutKey(Items(a), key), ok)

\* Favorites modal: clearAll()
clearAll(a, ok) == setItems(a, << >>, ok)

----------------------------------------------------------------------------
(* The retriever called on its own *)

BarInit ==
  /\ query = << "dune" >>
  /\ books = << >>
  /\ booksFrom = 0
  /\ loading = FALSE
  /\ searchAbort = 0
  /\ aborted = { }
  /\ suggestions = << >>
  /\ showSuggestions = FALSE
  /\ highlight = -1
  /\ debounced = << >>
  /\ suggestionAbort = 0
  /\ sugFetch = [k \in SuggestionFetches |-> NoFetch]

\* The subject arguments of a direct call: none, a word, only white space.
DirectSubjects == { << >>, << << "science" >> >>, << << " " >> >> }

\* The options of a direct call; planLength bounds the maxAttempts tried.
\* limit, which only appears in the request, is left to its default here;
\* the search box passes its own.
DirectOpts(planLength) ==
  { [ subjectSlug |-> sj, limit |-> l, minResults |-> mr, maxAttempts |-> ma,
      clientSideFilter |-> cf ] :
      sj \in DirectSubjects,
      l \in { << >> },
      mr \in { << >> } \cup { << n >> : n \in 0..MaxDocs },
      ma \in { << >> } \cup { << n >> : n \in (-1)..(planLength + MaxAttemptsSlack) },
      cf \in { << >> } \cup { << f >> : f \in RecordFilters } }

\* The categories of a direct call: one of each plan shape (two, three and
\* four slugs) and the one without a profile.  The plans of all categories
\* are built in SpecPlan.
DirectCategories == { "study_guide", "past_papers", "reference", UnknownCategory }

\* The longest plan of a category (with a subject token).
LongestPlan(rt) ==
  Len(buildQueryAttempts(rt, [ NoOpts EXCEPT !.subjectSlug = << << "science" >> >> ]).attempts)

Init ==
  /\ \E rt \in DirectCategories :
       \E o \in DirectOpts(LongestPlan(rt)) :
         /\ o.maxAttempts # << >> =>
              o.maxAttempts[1] <= Len(buildQueryAttempts(rt, o).attempts) + MaxAttemptsSlack
         /\ inv = [s \in Searches |->
                     IF s = 1
                     THEN [ IdleInv EXCEPT !.caller = "direct", !.resourceType = rt,
                                           !.opts = o ]
                     ELSE IdleInv]
  /\ filters = NoFilters
  /\ BarInit
  /\ app = FirstVisit

Next ==
  \E s \in Searches :
    \/ Call(s)
    \/ FetchNotOk(s)
    \/ FetchRejected(s)
    \/ FetchOk(s)
    \/ JsonRejected(s)
    \/ JsonResolved(s)
    \/ DelayElapsed(s)

Spec == Init /\ [][Next]_vars

----------------------------------------------------------------------------
(* The retriever when every request completes and every delay elapses *)

\* The fetch, the body read or the pacing timeout invocation s awaits settles.
SettleSmart(s) ==
  \/ FetchNotOk(s)
  \/ FetchRejected(s)
  \/ FetchOk(s)
  \/ JsonRejected(s)
  \/ JsonResolved(s)
  \/ DelayElapsed(s)

\* The options of the calls followed to their end: limit unset and set,
\* minResults unset, zero and positive, maxAttempts unset, negative, zero,
\* below and above the plan's length, with and without a record filter.
InitTerm ==
  /\ \E o \in { [ subjectSlug |-> << >>, limit |-> l, minResults |-> mr,
                  maxAttempts |-> ma, clientSideFilter |-> cf ] :
                  l \in { << >>, << 40 >> },
                  mr \in { << >>, << 0 >>, << MaxDocs >> },
                  ma \in { << >>, << -1 >>, << 0 >>, << 2 >>, << 7 >> },
                  cf \in { << >> } \cup { << f >> : f \in RecordFilters } } :
       inv = [s \in Searches |->
                IF s = 1
                THEN [ IdleInv EXCEPT !.caller = "direct", !.resourceType = "study_guide",
                                      !.opts = o ]
                ELSE IdleInv]
  /\ filters = NoFilters
  /\ BarInit
  /\ app = FirstVisit

\* The browser ends every fetch and body read with a result or an error, and
\* every timeout fires.
SpecTerm == InitTerm /\ [][Next]_vars /\ WF_vars(\E s \in Searches : SettleSmart(s))

----------------------------------------------------------------------------
(* buildQueryAttempts called on its own *)

SubjectAlphabet == { "science", " ", "+", "%", "subject", ":" }

PlanSubjects ==
  { << >> } \cup { << t >> : t \in SeqsUpTo(SubjectAlphabet, MaxSubjectLen) }

InitPlan ==
  /\ \E rt \in Categories, sj \in PlanSubjects :
       inv = [s \in Searches |->
                IF s = 1
                THEN [ IdleInv EXCEPT !.caller = "build", !.resourceType = rt,
                                      !.opts = [ NoOpts EXCEPT !.subjectSlug = sj ] ]
                ELSE IdleInv]
  /\ filters = NoFilters
  /\ BarInit
  /\ app = FirstVisit

\* buildQueryAttempts(resourceType, opts) returns its plan or throws.
Build(s) ==
  /\ inv[s].caller = "build"
  /\ inv[s].pc = "idle"
  /\ LET plan == buildQueryAttempts(inv[s].resourceType, inv[s].opts)
     IN  inv' = [inv EXCEPT ![s] = [ @ EXCEPT !.pc = IF plan.threw THEN "threw" ELSE "built",
                                              !.attempts = plan.attempts ]]
  /\ UNCHANGED barVars

NextPlan == \E s \in Searches : Build(s)

SpecPlan == InitPlan /\ [][NextPlan]_vars

----------------------------------------------------------------------------
(* The sort of runSearch called on its own *)

\* The book lists sorted: position n holds the book mapped from a record with
\* key n and a first_publish_year that is missing, before year 1, zero or one
\* of two later years.
SortInputs ==
  { [n \in 1..Len(ys) |->
       MapDoc([ key |-> << ToString(n) >>, first_publish_year |-> ys[n],
                has_fulltext |-> << >>, subject |-> << >> ])] :
      ys \in SeqsUpTo({ << >>, << -300 >>, << 0 >>, << 1999 >>, << 2001 >> }, MaxSortLen) }

InitSort ==
  /\ \E bs \in SortInputs :
       inv = [s \in Searches |->
                IF s = 1
                THEN [ IdleInv EXCEPT !.caller = "sort", !.lastResults = bs ]
                ELSE IdleInv]
  /\ \E o \in { "newest", "oldest", "" } : filters = [ NoFilters EXCEPT !.sortByYear = o ]
  /\ BarInit
  /\ app = FirstVisit

\* if (filters.sortByYear === ...) filtered = filtered.sort(...); setBooks(filtered)
Sort(s) ==
  /\ inv[s].caller = "sort"
  /\ inv[s].pc = "idle"
  /\ inv' = [inv EXCEPT ![s].pc = "sorted"]
  /\ books' = SortByYear(inv[s].lastResults, filters.sortByYear)
  /\ booksFrom' = s
  /\ UNCHANGED << suggestVars, app, filters, query, loading, searchAbort, aborted,
                  suggestions, showSuggestions >>

NextSort == \E s \in Searches : Sort(s)

SpecSort == InitSort /\ [][NextSort]_vars

----------------------------------------------------------------------------
(* SearchBar.runSearch *)

\* The filter settings a session starts with: two plain searches (one with a
\* category) and the smart search of a configured resource type.
BarFilters ==
  { [ NoFilters EXCEPT !.sortByYear = "newest", !.format = "ebook" ],
    [ NoFilters EXCEPT !.sortByYear = "oldest", !.format = "print",
                       !.category = << << "science" >> >> ],
    [ NoFilters EXCEPT !.sortByYear = "newest", !.format = "print",
                       !.resourceType = "study_guide" ] }

\* The invocation has a fetch, a body read or a pacing timeout pending.
Pending(r) == r.pc \in { "fetch", "json", "delay", "pfetch", "pjson" }

\* runSearch(q): abort the previous controller, install a new one, set loading
\* and start the smart search (filters.resourceType set) or the plain fetch
\* for final = q.  s is the number of the new invocation.
StartSearch(s, q) ==
  /\ inv[s].caller = "none"
  /\ \A t \in Searches : t < s => inv[t].caller # "none"
  /\ LET base  == [ IdleInv EXCEPT !.caller = "runSearch", !.final = q,
                                   !.filters = filters ]
         r2    == IF filters.resourceType # ""
                  THEN CallSmartSearch(base, filters.resourceType, SearchBarOpts(filters))
                  ELSE [ base EXCEPT !.pc = "pfetch", !.signal = TRUE,
                                     !.url = << buildSearchUrl(q, filters) >> ]
         prev  == searchAbort
     IN  /\ inv' = [t \in Searches |->
                      IF t = s THEN r2
                      ELSE IF t = prev /\ Pending(inv[t]) /\ inv[t].abortedAt = << >>
                      THEN [ inv[t] EXCEPT !.abortedAt = << inv[t].completed >> ]
                      ELSE inv[t]]
         /\ aborted' = IF prev = 0 THEN aborted ELSE aborted \cup { prev }
         /\ searchAbort' = s
         /\ IF r2.pc = "threw"
            THEN /\ books' = << >>
                 /\ booksFrom' = s
                 /\ loading' = FALSE
            ELSE /\ loading' = TRUE
                 /\ UNCHANGED << books, booksFrom >>

\* runSearch() from the Search button, or from Enter while no suggestion list
\* is shown: final is the typed query.
RunSearch(s) ==
  /\ StartSearch(s, query)
  /\ UNCHANGED << suggestVars, app, filters, query, suggestions, showSuggestions >>

\* The plain fetch resolved: the invocation awaits res.json().
PlainFetchOk(s) ==
  /\ inv[s].pc = "pfetch"
  /\ s \notin aborted
  /\ inv' = [inv EXCEPT ![s].pc = "pjson"]
  /\ UNCHANGED barVars

\* A variant without the catch and finally blocks: the error leaves runSearch
\* and the displayed books and the loading flag stay as they were.
PlainFailedUncaught(s) ==
  /\ inv' = [inv EXCEPT ![s].pc = "pfailed"]
  /\ UNCHANGED barVars

\* catch (err) for an error that is not an AbortError, then finally.
PlainFailed(s) ==
  /\ inv' = [inv EXCEPT ![s].pc = "pfailed"]
  /\ books' = << >>
  /\ booksFrom' = s
  /\ loading' = FALSE
  /\ UNCHANGED << suggestVars, app, filters, query, searchAbort, aborted,
                  suggestions, showSuggestions >>

\* The plain fetch rejected: a network failure.
PlainFetchRejected(s) ==
  /\ inv[s].pc = "pfetch"
  /\ s \notin aborted
  /\ PlainFailed(s)

\* res.json() rejected or data is null.
PlainJsonRejected(s) ==
  /\ inv[s].pc = "pjson"
  /\ s \notin aborted
  /\ PlainFailed(s)

\* res.json() resolved with data: map, filter, sort, setBooks, then finally.
PlainJsonResolved(s) ==
  /\ inv[s].pc = "pjson"
  /\ s \notin aborted
  /\ \E dataDocs \in BarDocLists :
       /\ inv' = [inv EXCEPT ![s].pc = "pdone"]
       /\ books' = PlainBooks(dataDocs, inv[s].filters)
       /\ booksFrom' = s
       /\ showSuggestions' = FALSE
       /\ suggestions' = << >>
       /\ loading' = FALSE
       /\ UNCHANGED << suggestVars, app, filters, query, searchAbort, aborted >>

\* The aborted signal rejected the pending fetch or body read with an
\* AbortError: catch returns, finally clears loading.
PlainAborted(s) ==
  /\ inv[s].pc \in { "pfetch", "pjson" }
  /\ s \in aborted
  /\ inv' = [inv EXCEPT ![s].pc = "pcancelled"]
  /\ loading' = FALSE
  /\ UNCHANGED << suggestVars, app, filters, query, books, booksFrom, searchAbort, aborted,
                  suggestions, showSuggestions >>

InitBar ==
  /\ inv = [s \in Searches |-> IdleInv]
  /\ filters \in BarFilters
  /\ BarInit
  /\ app = FirstVisit

NextBar ==
  \E s \in Searches :
       \/ RunSearch(s)
       \/ FetchNotOk(s)
       \/ FetchRejected(s)
       \/ FetchOk(s)
       \/ JsonRejected(s)
       \/ JsonResolved(s)
       \/ DelayElapsed(s)
       \/ PlainFetchOk(s)
       \/ PlainFetchRejected(s)
       \/ PlainJsonRejected(s)
       \/ PlainJsonResolved(s)
       \/ PlainAborted(s)

SpecBar == InitBar /\ [][NextBar]_vars

\* The promise or timer invocation s is suspended on settles: the response
\* arrives or the request fails, the body is read or not, the timeout fires.
Settle(s) ==
  \/ FetchNotOk(s)
  \/ FetchRejected(s)
  \/ FetchOk(s)
  \/ JsonRejected(s)
  \/ JsonResolved(s)
  \/ DelayElapsed(s)
  \/ PlainFetchOk(s)
  \/ PlainFetchRejected(s)
  \/ PlainJsonRejected(s)
  \/ PlainJsonResolved(s)
  \/ PlainAborted(s)

\* The search box when pending fetches, body reads and timeouts keep settling
\* (the browser ends a request that gets no answer with a rejection).  Every
\* invocation takes a bounded number of steps, so each of them settles.
SpecBarFair == SpecBar /\ WF_vars(\E s \in Searches : Settle(s))

----------------------------------------------------------------------------
(* Saving books: BookCard, the Favorites modal, the toggles and a reload *)

searchVars ==
  << inv, filters, query, books, booksFrom, loading, searchAbort, aborted,
     suggestions, showSuggestions, suggestVars >>

InitApp ==
  /\ inv = [s \in Searches |-> IdleInv]
  /\ filters = NoFilters
  /\ BarInit
  /\ app = FirstVisit

\* A click on the save button of a card.
ToggleSave ==
  /\ \E book \in AppBooks, ok \in BOOLEAN :
       app' = [ toggleSave(app, book, ok) EXCEPT !.op = "toggleSave" ]
  /\ UNCHANGED searchVars

\* A click on Remove next to an item of the modal.
Remove ==
  /\ \E n \in 1..Len(Items(app)), ok \in BOOLEAN :
       app' = [ remove(app, Items(app)[n].key, ok) EXCEPT !.op = "remove" ]
  /\ UNCHANGED searchVars

\* A click on Clear in the modal.
ClearAll ==
  /\ \E ok \in BOOLEAN : app' = [ clearAll(app, ok) EXCEPT !.op = "clearAll" ]
  /\ UNCHANGED searchVars

\* StudentModeToggle: setStudentMode(!studentMode), then the effect that
\* persists the flag and calls setMode.
ToggleStudentMode ==
  /\ \E ok \in BOOLEAN :
       LET sm == ~app.studentMode
       IN  app' = [ app EXCEPT
                      !.studentMode = sm,
                      !.mode = IF sm THEN "student" ELSE "normal",
                      !.storage = SetItem(app.storage, "studentMode",
                                          << IF sm THEN "true" ELSE "false" >>, ok),
                      !.writeFailed = app.writeFailed \/ ~ok,
                      !.op = "toggleStudentMode" ]
  /\ UNCHANGED searchVars

\* ModeToggle: setMode(mode === "normal" ? "student" : "normal")
ToggleMode ==
  /\ app' = [ app EXCEPT !.mode = IF app.mode = "normal" THEN "student" ELSE "normal",
                         !.op = "toggleMode" ]
  /\ UNCHANGED searchVars

\* The page is reloaded: AppProvider mounts again over the stored entries.
Reload ==
  /\ \E okF \in BOOLEAN, okR \in BOOLEAN, okS \in BOOLEAN :
       app' = [ Mount(app.storage, okF, okR, okS) EXCEPT
                  !.op = "reload",
                  !.writeFailed = app.writeFailed \/ ~(okF /\ okR /\ okS) ]
  /\ UNCHANGED searchVars

NextApp ==
  \/ ToggleSave
  \/ Remove
  \/ ClearAll
  \/ ToggleStudentMode
  \/ ToggleMode
  \/ Reload

SpecApp == InitApp /\ [][NextApp]_vars

----------------------------------------------------------------------------
(* The page: the mode toggle, the quick picks, the filters and the searches *)

\* The quick picks of student mode followed here: one with meta.resourceType
\* (s3) and one with meta.subject (s6).  meta fields use "" for an absent one.
studentPicks ==
  { [ q |-> << "study", " ", "guide" >>,
      meta |-> << [ resourceType |-> "study_guide", subject |-> << >> ] >> ],
    [ q |-> << "career", " ", "development", " ", "skills" >>,
      meta |-> << [ resourceType |-> "", subject |-> << "career" >> ] >> ] }

\* The quick picks of normal mode carry no meta (n5).
normalPicks == { [ q |-> << "short", " ", "stories" >>, meta |-> << >> ] }

\* picks = studentMode ? studentPicks : normalPicks
Picks(studentMode) == IF studentMode THEN studentPicks ELSE normalPicks

\* handlePickClick(q, meta): setQuery(q) and, with a meta, the updater that
\* merges meta.resourceType and meta.subject (as category) into the filters.
PickClick ==
  /\ \E p \in Picks(app.studentMode) :
       /\ query' = p.q
       /\ filters' =
            IF p.meta = << >> THEN filters
            ELSE [ filters EXCEPT
                     !.resourceType = IF p.meta[1].resourceType # ""
                                      THEN p.meta[1].resourceType ELSE @,
                     !.category     = IF p.meta[1].subject # << >>
                                      THEN << p.meta[1].subject >> ELSE @ ]
  /\ UNCHANGED << inv, books, booksFrom, loading, searchAbort, aborted, suggestions,
                  showSuggestions, suggestVars, app >>

\* The resource-type select, rendered in student mode only; of its options
\* the empty one and "study_guide" are followed.
SelectResourceType ==
  /\ app.studentMode
  /\ \E rt \in { "", "study_guide" } : filters' = [ filters EXCEPT !.resourceType = rt ]
  /\ UNCHANGED << inv, query, books, booksFrom, loading, searchAbort, aborted,
                  suggestions, showSuggestions, suggestVars, app >>

\* The category select; of its options "" and "history", offered in both
\* modes, are followed.
SelectCategory ==
  /\ \E c \in { << >>, << "history" >> } : filters' = [ filters EXCEPT !.category = << c >> ]
  /\ UNCHANGED << inv, query, books, booksFrom, loading, searchAbort, aborted,
                  suggestions, showSuggestions, suggestVars, app >>

\* AppContentInner mounts with an empty query and no filters.
InitMode ==
  /\ inv = [s \in Searches |-> IdleInv]
  /\ filters = NoFilters
  /\ query = << >>
  /\ books = << >>
  /\ booksFrom = 0
  /\ loading = FALSE
  /\ searchAbort = 0
  /\ aborted = { }
  /\ suggestions = << >>
  /\ showSuggestions = FALSE
  /\ highlight = -1
  /\ debounced = << >>
  /\ suggestionAbort = 0
  /\ sugFetch = [k \in SuggestionFetches |-> NoFetch]
  /\ app = FirstVisit

\* One search is followed per session, so none is aborted; concurrent searches
\* are followed in SpecBar.
PageSearches == { 1 }

NextMode ==
  \/ ToggleStudentMode
  \/ PickClick
  \/ SelectResourceType
  \/ SelectCategory
  \/ \E s \in PageSearches :
       \/ RunSearch(s)
       \/ FetchNotOk(s)
       \/ FetchRejected(s)
       \/ FetchOk(s)
       \/ JsonRejected(s)
       \/ JsonResolved(s)
       \/ DelayElapsed(s)
       \/ PlainFetchOk(s)
       \/ PlainFetchRejected(s)
       \/ PlainJsonRejected(s)
       \/ PlainJsonResolved(s)

SpecMode == InitMode /\ [][NextMode]_vars

----------------------------------------------------------------------------
(* SearchBar: typing, the debounced query, the suggestions and the keys *)

\* The value of the query prop after setQuery(undefined): not a string.
Undefined == << "undefined value" >>

\* data.docs of the answers, each record given by its optional title (<< >> is
\* a record without one): none, one record, five records with a missing and a
\* repeated title, seven records (one more than slice keeps).
SuggestionResponses ==
  LET dune      == << << "dune" >> >>
      messiah   == << << "dune", " ", "messiah" >> >>
      dubliners == << << "dubliners" >> >>
  IN  { << >>,
        << dune >>,
        << dune, << >>, messiah, dune, dubliners >>,
        << messiah, messiah, messiah, messiah, messiah, messiah, dubliners >> }

\* Array.prototype.slice(0, n)
Slice(list, n) == SubSeq(list, 1, IF Len(list) < n THEN Len(list) ELSE n)

\* .map((d) => d.title).filter(Boolean): the titles that are defined and not empty
Titles(docs) ==
  LET kept == SelectSeq(docs, LAMBDA t : t # << >> /\ t[1] # << >>)
  IN  [n \in 1..Len(kept) |-> kept[n][1]]

\* Array.from(new Set(list)): the first occurrence of every element, in order
Dedupe(list) ==
  LET first == { n \in 1..Len(list) : \A m \in 1..(n - 1) : list[m] # list[n] }
      Rank(n) == Cardinality({ m \in first : m <= n })
  IN  [k \in 1..Cardinality(first) |-> list[CHOOSE n \in first : Rank(n) = k]]

\* The component is mounted: the effect has not thrown on debounced.trim().
Mounted == debounced # Undefined

\* The suggestion list is rendered.
ListShown == showSuggestions /\ suggestions # << >>

\* A variant in which abort() leaves the request running.
AbortSuggestionIgnored(fetches, k) == fetches

\* AbortController.abort() of request k: a pending fetch or body read is
\* rejected with an AbortError, which the catch handler drops.
AbortSuggestion(fetches, k) ==
  IF k # 0 /\ fetches[k].state = "pending"
  THEN [fetches EXCEPT ![k].state = "aborted"]
  ELSE fetches

\* input onChange: setQuery(e.target.value), for the input emptied or holding
\* "d", "du" or a space.
Type ==
  /\ Mounted
  /\ \E t \in { << >>, << "d" >>, << "d", "u" >>, << " " >> } :
       /\ t # query
       /\ query' = t
  /\ UNCHANGED << inv, filters, books, booksFrom, loading, searchAbort, aborted,
                  suggestions, showSuggestions, suggestVars, app >>

\* The timeout of useDebounce fires: setV(query), then the cleanup of the
\* previous suggestions effect and the effect for the new debounced value.
DebounceElapsed ==
  /\ Mounted
  /\ query # debounced
  /\ debounced' = query
  /\ LET cleaned == AbortSuggestion(sugFetch, suggestionAbort)
     IN  IF query = Undefined
         THEN /\ sugFetch' = cleaned
              /\ UNCHANGED << suggestions, showSuggestions, suggestionAbort >>
         ELSE IF Trim(query) = << >>
         THEN /\ sugFetch' = cleaned
              /\ suggestions' = << >>
              /\ showSuggestions' = FALSE
              /\ UNCHANGED suggestionAbort
         ELSE \E k \in SuggestionFetches :
                /\ sugFetch[k].state = "none"
                /\ \A j \in SuggestionFetches : j < k => sugFetch[j].state # "none"
                /\ sugFetch' = [ AbortSuggestion(cleaned, suggestionAbort) EXCEPT
                                   ![k] = [ state |-> "pending", title |-> query ] ]
                /\ suggestionAbort' = k
                /\ UNCHANGED << suggestions, showSuggestions >>
  /\ UNCHANGED << inv, filters, query, books, booksFrom, loading, searchAbort, aborted,
                  highlight, app >>

\* The answer of suggestion request k arrives and its body parses.
SuggestResolved(k) ==
  /\ Mounted
  /\ sugFetch[k].state = "pending"
  /\ \E docs \in SuggestionResponses :
       LET list == Titles(Slice(docs, 6))
       IN  /\ suggestions' = Dedupe(list)
           /\ showSuggestions' = IF list # << >> THEN TRUE ELSE showSuggestions
  /\ sugFetch' = [sugFetch EXCEPT ![k].state = "done"]
  /\ UNCHANGED << inv, filters, query, books, booksFrom, loading, searchAbort, aborted,
                  highlight, debounced, suggestionAbort, app >>

\* The request or the body read of suggestion request k fails: the catch
\* handler drops the error.
SuggestFailed(k) ==
  /\ Mounted
  /\ sugFetch[k].state = "pending"
  /\ sugFetch' = [sugFetch EXCEPT ![k].state = "failed"]
  /\ UNCHANGED << inv, filters, query, books, booksFrom, loading, searchAbort, aborted,
                  suggestions, showSuggestions, highlight, debounced, suggestionAbort,
                  app >>

\* onKeyDown, ArrowDown
ArrowDown ==
  /\ Mounted
  /\ ListShown
  /\ highlight' = Min(highlight + 1, Len(suggestions) - 1)
  /\ UNCHANGED << inv, filters, query, books, booksFrom, loading, searchAbort, aborted,
                  suggestions, showSuggestions, debounced, suggestionAbort, sugFetch,
                  app >>

\* onKeyDown, ArrowUp
ArrowUp ==
  /\ Mounted
  /\ ListShown
  /\ highlight' = Max(highlight - 1, 0)
  /\ UNCHANGED << inv, filters, query, books, booksFrom, loading, searchAbort, aborted,
                  suggestions, showSuggestions, debounced, suggestionAbort, sugFetch,
                  app >>

\* onKeyDown, Enter: runSearch() when no list is rendered, otherwise
\* setQuery(sel) and runSearch(sel) for the highlighted suggestion or the query;
\* suggestions[highlight] is undefined outside the list.
PressEnter(s) ==
  /\ Mounted
  /\ IF ~ListShown
     THEN /\ StartSearch(s, query)
          /\ UNCHANGED query
     ELSE LET sel == IF highlight < 0 THEN << query >>
                     ELSE IF highlight + 1 \in DOMAIN suggestions
                     THEN << suggestions[highlight + 1] >>
                     ELSE << >>
          IN  /\ query' = IF sel = << >> THEN Undefined ELSE sel[1]
              /\ StartSearch(s, IF sel = << >> THEN query ELSE sel[1])
  /\ UNCHANGED << filters, suggestions, showSuggestions, suggestVars, app >>

\* onKeyDown, Escape
PressEscape ==
  /\ Mounted
  /\ ListShown
  /\ showSuggestions' = FALSE
  /\ highlight' = -1
  /\ UNCHANGED << inv, filters, query, books, booksFrom, loading, searchAbort, aborted,
                  suggestions, debounced, suggestionAbort, sugFetch, app >>

\* A click outside the input and the rendered list.
DocClick ==
  /\ Mounted
  /\ ListShown
  /\ showSuggestions' = FALSE
  /\ highlight' = -1
  /\ UNCHANGED << inv, filters, query, books, booksFrom, loading, searchAbort, aborted,
                  suggestions, debounced, suggestionAbort, sugFetch, app >>

\* input onFocus
Focus ==
  /\ Mounted
  /\ suggestions # << >>
  /\ showSuggestions' = TRUE
  /\ UNCHANGED << inv, filters, query, books, booksFrom, loading, searchAbort, aborted,
                  suggestions, suggestVars, app >>

\* li onMouseEnter of the suggestion at index i
MouseEnter(i) ==
  /\ Mounted
  /\ ListShown
  /\ i + 1 \in DOMAIN suggestions
  /\ highlight' = i
  /\ UNCHANGED << inv, filters, query, books, booksFrom, loading, searchAbort, aborted,
                  suggestions, showSuggestions, debounced, suggestionAbort, sugFetch,
                  app >>

\* li onClick of the suggestion at index i
ClickSuggestion(s, i) ==
  /\ Mounted
  /\ ListShown
  /\ i + 1 \in DOMAIN suggestions
  /\ query' = suggestions[i + 1]
  /\ StartSearch(s, suggestions[i + 1])
  /\ showSuggestions' = FALSE
  /\ UNCHANGED << filters, suggestions, suggestVars, app >>

NextSuggest ==
  \/ Type
  \/ DebounceElapsed
  \/ \E k \in SuggestionFetches : SuggestResolved(k)
  \/ \E k \in SuggestionFetches : SuggestFailed(k)
  \/ ArrowDown
  \/ ArrowUp
  \/ PressEscape
  \/ DocClick
  \/ Focus
  \/ \E i \in 0..(Len(suggestions) - 1) : MouseEnter(i)
  \/ \E s \in PageSearches :
       \/ PressEnter(s)
       \/ \E i \in 0..(Len(suggestions) - 1) : ClickSuggestion(s, i)
       \/ PlainFetchOk(s)
       \/ PlainFetchRejected(s)
       \/ PlainJsonRejected(s)
       \/ PlainJsonResolved(s)

SpecSuggest == InitMode /\ [][NextSuggest]_vars

----------------------------------------------------------------------------
(* Properties of the retriever (Spec) *)

\* C1: when attempt k is the first attempt whose filtered result count reaches
\* minResults, runSmartSearch has returned, the outcome's docs are attempt k's
\* filtered documents, its attempt field is k, its description is attempt k's
\* description, and the requests issued are exactly those of attempts 1..k.
FirstAcceptableAttemptIsReturned ==
  \A s \in Searches :
    LET r == inv[s]
    IN  r.firstMet > 0 =>
          /\ r.pc = "returned"
          /\ r.outcome # << >>
          /\ r.outcome[1].docs = r.metDocs
          /\ r.outcome[1].attempt = r.firstMet
          /\ r.outcome[1].description = r.attempts[r.firstMet].description
          /\ r.requests = [n \in 1..r.firstMet |-> n]
          /\ r.firstMet <= Min(OrDefault(r.opts.maxAttempts, Len(r.attempts)), Len(r.attempts))

\* The scenario of C1: past_papers, no subject, the default threshold 6,
\* maxAttempts 3, two attempts below the threshold and the third accepted.
ThirdAttemptAccepted ==
  /\ inv[1].caller = "direct"
  /\ inv[1].resourceType = "past_papers"
  /\ inv[1].opts.subjectSlug = << >>
  /\ inv[1].opts.minResults = << >>
  /\ inv[1].opts.maxAttempts = << 3 >>
  /\ inv[1].pc = "returned"
  /\ inv[1].firstMet = 3
  /\ inv[1].evals = 3
  /\ Len(inv[1].outcome[1].docs) = 6

RequestsAtMostMinOfCapAndPlan ==
  \A s \in Searches :
    LET r == inv[s]
    IN  r.pc \notin { "idle", "threw" } =>
          Len(r.requests) <= Min(OrDefault(r.opts.maxAttempts, Len(r.attempts)),
                                 Len(r.attempts))

\* C3, amended: the number of requests issued is at most
\* max(0, min(maxAttempts, plan length)) and never more than the plan length.
RequestsWithinCap ==
  \A s \in Searches :
    LET r   == inv[s]
        cap == Min(OrDefault(r.opts.maxAttempts, Len(r.attempts)), Len(r.attempts))
    IN  r.pc \notin { "idle", "threw" } =>
          /\ Len(r.requests) <= (IF cap < 0 THEN 0 ELSE cap)
          /\ Len(r.requests) <= Len(r.attempts)

\* A run that used the whole plan although maxAttempts was larger than it.
CapAbovePlanExhausted ==
  /\ inv[1].caller = "direct"
  /\ inv[1].pc = "returned"
  /\ inv[1].opts.maxAttempts # << >>
  /\ inv[1].opts.maxAttempts[1] > Len(inv[1].attempts)
  /\ Len(inv[1].requests) = Len(inv[1].attempts)
  /\ inv[1].firstMet = 0

UnknownCategoryFailsBeforeAnyRequest ==
  \A s \in Searches :
    LET r == inv[s]
    IN  (r.caller = "direct" /\ ~HasProfile(r.resourceType)) =>
          /\ buildQueryAttempts(r.resourceType, r.opts).threw
          /\ r.pc \in { "idle", "threw" }
          /\ r.requests = << >>
          /\ r.outcome = << >>

\* The call with an unknown category has ended with the error.
UnknownCategoryThrew ==
  /\ inv[1].caller = "direct"
  /\ inv[1].resourceType = UnknownCategory
  /\ inv[1].pc = "threw"

\* C23: in every outcome the attempt field is the number of requests the
\* invocation issued, it is never negative, and the url is absent whenever no
\* request was issued, for every maxAttempts, zero and negative ones included.
AttemptFieldCountsRequests ==
  \A s \in Searches :
    LET r == inv[s]
    IN  (r.caller = "direct" /\ r.pc = "returned" /\ r.outcome # << >>) =>
          /\ r.outcome[1].attempt = Len(r.requests)
          /\ r.outcome[1].attempt >= 0
          /\ (r.requests = << >> => r.outcome[1].url = << >>)

----------------------------------------------------------------------------
(* Properties of the plan builder (SpecPlan) *)

\* A subject token is supplied when the subject is defined and has an atom
\* that is not white space.
Supplied(opts) ==
  /\ opts.subjectSlug # << >>
  /\ \E n \in 1..Len(opts.subjectSlug[1]) : ~IsSpace(opts.subjectSlug[1][n])

\* C9: for every configured category and every subject, buildQueryAttempts
\* returns a non-empty plan of slugCount * k + k attempts, where k is 2 when a
\* subject token is supplied and 1 otherwise.
PlanLengthFormula ==
  \A s \in Searches :
    LET r == inv[s]
        k == IF Supplied(r.opts) THEN 2 ELSE 1
    IN  (r.caller = "build" /\ r.pc # "idle" /\ HasProfile(r.resourceType)) =>
          /\ r.pc = "built"
          /\ r.attempts # << >>
          /\ Len(r.attempts) = Len(RESOURCE_MAP[r.resourceType].slugs) * k + k

\* A plan built for the four-slug category with a subject padded by white space.
PlanBuiltWithPaddedSubject ==
  /\ inv[1].caller = "build"
  /\ inv[1].pc = "built"
  /\ inv[1].resourceType = "reference"
  /\ inv[1].opts.subjectSlug = << << " ", "science" >> >>
  /\ Len(inv[1].attempts) = 10

IsCombinedAttempt(a, slug, token) ==
  /\ a.type = "subject"
  /\ decodeURIComponent(a.q) = SubjectPrefix \o slug \o << "+" >> \o SubjectPrefix \o token
  /\ a.description = SubjectPrefix \o slug \o << " ", "AND", " " >> \o SubjectPrefix \o token

IsAloneAttempt(a, slug) ==
  /\ a.type = "subject"
  /\ decodeURIComponent(a.q) = SubjectPrefix \o slug
  /\ a.description = SubjectPrefix \o slug

IsKeywordAttempt(a, keywords, suffix) ==
  /\ a.type = "keyword"
  /\ decodeURIComponent(a.q) = KeywordPhrase(keywords) \o suffix

\* C10: the plan is, for each slug in table order, the combined attempt (only
\* with a subject token) immediately followed by the alone attempt, then the
\* keyword attempt with the token (only with a token), then the keyword attempt
\* with the phrase alone.
PlanOrder ==
  \A s \in Searches :
    LET r     == inv[s]
        map   == RESOURCE_MAP[r.resourceType]
        n     == Len(map.slugs)
        token == Trim(r.opts.subjectSlug[1])
    IN  (r.caller = "build" /\ r.pc = "built") =>
          IF Supplied(r.opts)
          THEN /\ Len(r.attempts) = 2 * n + 2
               /\ \A j \in 1..n :
                    /\ IsCombinedAttempt(r.attempts[2 * j - 1], map.slugs[j], token)
                    /\ IsAloneAttempt(r.attempts[2 * j], map.slugs[j])
               /\ IsKeywordAttempt(r.attempts[2 * n + 1], map.keywords, << " " >> \o token)
               /\ IsKeywordAttempt(r.attempts[2 * n + 2], map.keywords, << >>)
          ELSE /\ Len(r.attempts) = n + 1
               /\ \A j \in 1..n : IsAloneAttempt(r.attempts[j], map.slugs[j])
               /\ IsKeywordAttempt(r.attempts[n + 1], map.keywords, << >>)

\* A plan built for a three-slug category with a subject token.
PlanBuiltWithSubject ==
  /\ inv[1].caller = "build"
  /\ inv[1].pc = "built"
  /\ inv[1].resourceType = "past_papers"
  /\ inv[1].opts.subjectSlug = << << "science" >> >>
  /\ Len(inv[1].attempts) = 8
  /\ inv[1].attempts[1].type = "subject"
  /\ inv[1].attempts[8].type = "keyword"

\* The limits a plan's requests are built with: the default and the search box's.
PlanLimits == { DefaultLimit, SearchBarOpts(NoFilters).limit[1] }

\* C21: for every slug S and supplied subject token T, the request of the
\* combined attempt carries exactly the two subject parameters S and T,
\* unchanged, the request of the alone attempt exactly the one subject
\* parameter S, the request of a keyword attempt exactly one q parameter, the
\* keyword phrase (followed by T in the attempt with the token), and every
\* request carries the configured limit.
RequestsCarrySlugAndTokenUnchanged ==
  \A s \in Searches :
    LET r     == inv[s]
        map   == RESOURCE_MAP[r.resourceType]
        n     == Len(map.slugs)
        token == Trim(r.opts.subjectSlug[1])
    IN  (r.caller = "build" /\ r.pc = "built") =>
          \A limit \in PlanLimits :
            IF Supplied(r.opts)
            THEN /\ \A j \in 1..n :
                      /\ RequestFor(r.attempts[2 * j - 1], limit) =
                           << << "subject", map.slugs[j] >>, << "subject", token >>,
                              LimitParam(limit) >>
                      /\ RequestFor(r.attempts[2 * j], limit) =
                           << << "subject", map.slugs[j] >>, LimitParam(limit) >>
                 /\ RequestFor(r.attempts[2 * n + 1], limit) =
                      << << "q", KeywordPhrase(map.keywords) \o << " " >> \o token >>,
                         LimitParam(limit) >>
                 /\ RequestFor(r.attempts[2 * n + 2], limit) =
                      << << "q", KeywordPhrase(map.keywords) >>, LimitParam(limit) >>
            ELSE /\ \A j \in 1..n :
                      RequestFor(r.attempts[j], limit) =
                        << << "subject", map.slugs[j] >>, LimitParam(limit) >>
                 /\ RequestFor(r.attempts[n + 1], limit) =
                      << << "q", KeywordPhrase(map.keywords) >>, LimitParam(limit) >>

----------------------------------------------------------------------------
(* Properties of the search box (SpecBar) *)

\* C4: a search writes the displayed books only while it is the most recently
\* started search: every setBooks call is made by the invocation that owns
\* searchAbort.current.
OnlyLatestSearchWritesBooks ==
  [][ \A s \in Searches :
        (booksFrom' = s /\ booksFrom # s) => searchAbort' = s ]_vars

\* The request of the invocation is live: pending, and not cancelled through
\* a signal its fetch was given.
InFlight(s) == Pending(inv[s]) /\ ~(inv[s].signal /\ s \in aborted)

\* C5: at most one retrieval of the search box is in flight at any time.
AtMostOneRetrievalInFlight ==
  Cardinality({ s \in Searches : InFlight(s) }) <= 1

\* C6: a smart search cancelled before any of its attempts completed yields no
\* outcome, never compares a result count with minResults and writes no books.
CancelledBeforeFirstAttemptYieldsNothing ==
  \A s \in Searches :
    (inv[s].abortedAt = << 0 >> /\ inv[s].filters.resourceType # "") =>
      /\ inv[s].outcome = << >>
      /\ inv[s].evals = 0
      /\ booksFrom # s

----------------------------------------------------------------------------
(* Scheduling of the attempts of one invocation (Spec) *)

\* C12: within one invocation at most one request is outstanding (issued and
\* not yet settled) at any moment, and the request of attempt k+1 is issued
\* only when attempt k has settled and no attempt so far reached minResults.
AttemptsStrictlySequential ==
  [][ \A s \in Searches :
        LET r  == inv[s]
            r2 == inv'[s]
        IN  /\ Len(r2.requests) - r2.completed \in { 0, 1 }
            /\ Len(r2.requests) > Len(r.requests) =>
                  /\ Len(r2.requests) = Len(r.requests) + 1
                  /\ r2.completed = Len(r.requests)
                  /\ r2.firstMet = 0 ]_vars

\* The second request is outstanding after the first attempt was evaluated
\* and found below the threshold.
SecondRequestAfterFirstBelowThreshold ==
  /\ inv[1].caller = "direct"
  /\ inv[1].pc = "fetch"
  /\ inv[1].requests = << 1, 2 >>
  /\ inv[1].completed = 1
  /\ inv[1].evals = 1
  /\ Len(inv[1].lastFiltered) < inv[1].minResults

----------------------------------------------------------------------------
(* The record filter (Spec) *)

\* C13: with a record filter configured, an attempt is accepted only when the
\* number of its documents that pass the filter reaches minResults and is
\* rejected whenever that number is below minResults, whatever the size of
\* the raw response; the last-seen result set and the returned outcome
\* (accepted or fallback) hold only documents that pass the filter.
FilteredCountIsCompared ==
  \A s \in Searches :
    LET r          == inv[s]
        f          == r.opts.clientSideFilter
        minResults == OrDefault(r.opts.minResults, DefaultMinResults)
        Passing(docs) == \A n \in 1..Len(docs) : FilterPasses(f[1], docs[n])
    IN  (r.caller = "direct" /\ f # << >>) =>
          /\ Passing(r.lastResults)
          /\ r.outcome # << >> => Passing(r.outcome[1].docs)
          /\ r.pc = "delay" => Len(r.lastFiltered) < minResults
          /\ (r.pc = "returned" /\ r.outcome[1].description # << "fallback" >>) =>
                /\ Len(r.lastFiltered) >= minResults
                /\ r.outcome[1].docs = r.lastFiltered

\* The scenario of C13: the raw response reaches the default threshold of 6,
\* fewer of its documents carry the full-text flag, and the attempt is rejected.
RawCountMeetsButFilteredDoesNot ==
  /\ inv[1].caller = "direct"
  /\ inv[1].opts.clientSideFilter = << "has_fulltext" >>
  /\ inv[1].opts.minResults = << >>
  /\ inv[1].pc = "delay"
  /\ inv[1].lastRawCount = 6
  /\ Len(inv[1].lastFiltered) \in 1..5
  /\ inv[1].lastResults = inv[1].lastFiltered

----------------------------------------------------------------------------
(* The partial result of the fallback (Spec) *)

\* The invocation returned the fallback outcome.
ReturnedFallback(r) ==
  /\ r.pc = "returned"
  /\ r.outcome # << >>
  /\ r.outcome[1].description = << "fallback" >>

\* C14, as stated: when no attempt met the threshold, no attempt of the
\* invocation produced a larger filtered result set than the one returned.
FallbackIsBestPartialResult ==
  \A s \in Searches :
    ReturnedFallback(inv[s]) =>
      Len(inv[s].outcome[1].docs) >= inv[s].bestFiltered

\* C14, amended: when no attempt met the threshold, the documents returned
\* are the filtered documents of the last attempt tried (none when it
\* failed); they are never more than the largest filtered result set of the
\* invocation, and every evaluated attempt stayed below minResults.
FallbackIsLastPartialResult ==
  \A s \in Searches :
    LET r == inv[s]
    IN  ReturnedFallback(r) =>
          /\ r.outcome[1].docs = r.lastFiltered
          /\ r.completed > 0 => r.lastRawCount >= Len(r.outcome[1].docs)
          /\ Len(r.outcome[1].docs) <= r.bestFiltered
          /\ r.evals > 0 =>
                r.bestFiltered < OrDefault(r.opts.minResults, DefaultMinResults)

\* The fallback returned fewer documents than an earlier attempt had produced.
FallbackSmallerThanEarlierAttempt ==
  /\ inv[1].caller = "direct"
  /\ ReturnedFallback(inv[1])
  /\ inv[1].evals >= 2
  /\ inv[1].bestFiltered > 0
  /\ Len(inv[1].outcome[1].docs) < inv[1].bestFiltered

----------------------------------------------------------------------------
(* Pacing and failed attempts (Spec) *)

\* C19: every request after the first is issued by the step in which the
\* pacing timeout of the previous attempt fires, also when that attempt ended
\* in a non-success response or a network failure.
PacingDelayBeforeEveryNextRequest ==
  [][ \A s \in Searches :
        (Len(inv'[s].requests) > Len(inv[s].requests) /\ inv[s].requests # << >>) =>
          /\ inv[s].pc = "delay"
          /\ inv[s].timer = << PacingDelay(Len(inv[s].requests) - 1) >> ]_vars

\* C20: the requests issued are those of attempts 1, 2, ... each once and in
\* plan order; the step in which an attempt fails (settles without a result
\* count) empties the last-seen result set and either issues the request of
\* the next attempt, when one remains within the cap, or returns the fallback
\* with no documents, without requesting the failed attempt again.
FailedAttemptIsAbsorbedNotRetried ==
  [][ \A s \in Searches :
        LET r   == inv[s]
            r2  == inv'[s]
            k   == Len(r.requests)
            cap == Min(OrDefault(r.opts.maxAttempts, Len(r.attempts)), Len(r.attempts))
        IN  /\ r2.requests = [n \in 1..Len(r2.requests) |-> n]
            /\ Len(r2.requests) <= Len(r2.attempts)
            /\ (r2.completed = r.completed + 1 /\ r2.evals = r.evals) =>
                  /\ r2.lastResults = << >>
                  /\ IF k < cap
                     THEN /\ r2.pc = "fetch"
                          /\ r2.requests = Append(r.requests, k + 1)
                          /\ r2.url = << RequestFor(r.attempts[k + 1], r.limit) >>
                     ELSE /\ ReturnedFallback(r2)
                          /\ r2.outcome[1].docs = << >>
                          /\ r2.requests = r.requests ]_vars

\* Attempt 1 produced documents below the threshold, attempt 2 failed, and
\* the request of attempt 3 is outstanding with an empty last-seen result set.
ThirdRequestAfterFailedSecond ==
  /\ inv[1].caller = "direct"
  /\ inv[1].pc = "fetch"
  /\ inv[1].requests = << 1, 2, 3 >>
  /\ inv[1].completed = 2
  /\ inv[1].evals = 1
  /\ inv[1].bestFiltered > 0
  /\ inv[1].lastResults = << >>

----------------------------------------------------------------------------
(* Absent fields of a document record (SpecBar) *)

\* The raw record a displayed book was mapped from.
RawDocOf(b) == CHOOSE d \in { DocA, DocB, DocC } : MapDoc(d).key = b.key

\* C18: a record without a full-text flag is not handled as one whose flag is
\* false (its book does not carry has_fulltext = false and is not kept by the
\* "print" format filter), and a record without a first-publish year is not
\* handled as one of year 0 (under "newest" its book is not placed ahead of a
\* book that has a year).
AbsentFieldsAreUnknown ==
  \A n \in 1..Len(books) :
    LET d == RawDocOf(books[n])
        f == inv[booksFrom].filters
    IN  /\ d.has_fulltext = << >> =>
              /\ books[n].has_fulltext # FALSE
              /\ f.format # "print"
        /\ (d.first_publish_year = << >> /\ f.sortByYear = "newest") =>
              \A m \in (n + 1)..Len(books) : books[m].first_publish_year = << >>

----------------------------------------------------------------------------
(* The end of a search (SpecBarFair) *)

\* BookList shows the grid of books; with no books it shows the message
\* "No results. Try a different query.".
BooksDisplayed == books # << >>

MessageDisplayed == books = << >>

\* C17: every running search started from the search box is eventually
\* superseded by a later one or ends, whatever its requests were answered
\* with, in a state that it wrote itself, with loading cleared, where its
\* books or the no-results message are displayed.
SearchEndsWithBooksOrMessage ==
  \A s \in Searches :
    (inv[s].caller = "runSearch" /\ Pending(inv[s]) /\ searchAbort = s)
      ~> \/ searchAbort # s
         \/ /\ ~Pending(inv[s])
            /\ booksFrom = s
            /\ ~loading
            /\ BooksDisplayed \/ MessageDisplayed

\* The latest search ended with a network failure and the message is displayed.
FailedSearchShowsMessage ==
  \E s \in Searches :
    /\ searchAbort = s
    /\ inv[s].pc = "pfailed"
    /\ booksFrom = s
    /\ ~loading
    /\ MessageDisplayed

\* C24: loading is true whenever the most recently started search has not
\* finished: no completion or abort of an older search clears it while the
\* newest search has a request, a body read or a pacing timeout pending.
LoadingWhileNewestSearchPending ==
  (searchAbort # 0 /\ Pending(inv[searchAbort])) => loading

----------------------------------------------------------------------------
(* Properties of the retriever when requests complete (SpecTerm) *)

\* C22: when every request completes and every pacing delay elapses, every
\* invocation of runSmartSearch for a category with a profile eventually
\* returns an outcome, whatever limit, minResults, maxAttempts and record
\* filter it was called with.
SmartSearchEventuallyReturns ==
  \A s \in Searches :
    (inv[s].caller = "direct" /\ inv[s].pc # "idle" /\ HasProfile(inv[s].resourceType))
      ~> (inv[s].pc = "returned" /\ inv[s].outcome # << >>)

\* A call capped above the plan's length returned the fallback after every
\* attempt of the plan was paced and found short of a positive threshold.
ReturnedAfterWholePlanPaced ==
  /\ inv[1].caller = "direct"
  /\ inv[1].opts.maxAttempts = << 7 >>
  /\ inv[1].opts.clientSideFilter # << >>
  /\ ReturnedFallback(inv[1])
  /\ Len(inv[1].requests) = Len(inv[1].attempts)
  /\ inv[1].evals = Len(inv[1].attempts)

----------------------------------------------------------------------------
(* Properties of the sort (SpecSort) *)

HasYear(b) == b.first_publish_year # << >>

\* C30: with sortByYear "newest" the displayed books are in non-increasing
\* year order, with "oldest" in non-decreasing year order, in both every book
\* without a year comes after every book that has one, and without a sort the
\* order of the search is kept, for years of either sign and zero.
SortedByYearYearlessLast ==
  \A s \in Searches :
    (inv[s].caller = "sort" /\ inv[s].pc = "sorted") =>
      CASE filters.sortByYear = "newest" ->
             \A m, n \in 1..Len(books) :
               (m < n /\ HasYear(books[n])) =>
                 /\ HasYear(books[m])
                 /\ books[m].first_publish_year[1] >= books[n].first_publish_year[1]
        [] filters.sortByYear = "oldest" ->
             \A m, n \in 1..Len(books) :
               (m < n /\ HasYear(books[n])) =>
                 /\ HasYear(books[m])
                 /\ books[m].first_publish_year[1] <= books[n].first_publish_year[1]
        [] OTHER -> books = inv[s].lastResults

----------------------------------------------------------------------------
(* Properties of the page (SpecMode) *)

\* C25: after any sequence of mode toggles, quick-pick clicks and filter
\* changes, a search started while studentMode is false is the plain query
\* search built from the typed query and the filters; the smart resource
\* search is started only while studentMode is true.
NormalModeSearchIsPlain ==
  [][ \A s \in Searches :
        (inv[s].caller = "none" /\ inv'[s].caller = "runSearch" /\ ~app.studentMode) =>
          /\ inv'[s].pc = "pfetch"
          /\ inv'[s].url = << buildSearchUrl(query, filters) >> ]_vars

----------------------------------------------------------------------------
(* Properties of the suggestions (SpecSuggest) *)

\* C26: whenever the suggestion list is rendered, so that Enter picks from
\* it, highlight is -1 or an index of the current suggestion list, and the
\* value Enter passes to setQuery is a suggestion or the typed query, never
\* undefined, under any interleaving of arrow keys, hovers, typing and
\* suggestion-list updates.
HighlightIndexesCurrentSuggestions ==
  /\ ListShown => highlight \in (-1)..(Len(suggestions) - 1)
  /\ query # Undefined

\* C29: a suggestion request is aborted when a newer one starts: the
\* suggestion list is filled only from the answer to the request issued for
\* the current debounced query, and while the debounced query is empty or only
\* white space the suggestions are empty and hidden.
SuggestionsFromCurrentQueryOnly ==
  /\ [](Trim(debounced) = << >> => (suggestions = << >> /\ ~showSuggestions))
  /\ [][ \A k \in SuggestionFetches :
           (sugFetch[k].state = "pending" /\ sugFetch'[k].state = "done") =>
             /\ sugFetch[k].title = debounced
             /\ suggestionAbort = k
             /\ \A j \in SuggestionFetches : j # k => sugFetch[j].state # "pending" ]_vars

\* The first request was aborted when the second started, and the list shown
\* was filled from the answer to the second, issued for the debounced query.
SecondAnswerShownFirstAborted ==
  /\ sugFetch[1].state = "aborted"
  /\ sugFetch[2].state = "done"
  /\ sugFetch[2].title = debounced
  /\ sugFetch[1].title # debounced
  /\ ListShown

----------------------------------------------------------------------------
(* Properties of the saved lists (SpecApp) *)

\* C15: when no storage write has failed, a reload yields Favourites and
\* Repository lists equal to the ones held just before it, after any sequence
\* of saves, removals and clears.
ReloadRestoresSavedLists ==
  [][ (app'.op = "reload" /\ ~app.writeFailed) =>
        /\ app'.favorites = app.favorites
        /\ app'.repository = app.repository ]_vars

\* The application was reloaded with books in both lists, the lists differing.
ReloadedWithBothListsFilled ==
  /\ app.op = "reload"
  /\ ~app.writeFailed
  /\ Len(app.favorites) = 2
  /\ Len(app.repository) = 1
  /\ app.storage.favorites = << JSONstringify(app.favorites) >>

\* C16: toggleSave, remove and clearAll leave the Repository list and its
\* stored entry unchanged while studentMode is false, and the Favourites list
\* and its stored entry unchanged while studentMode is true; they change
\* neither studentMode nor mode.
SaveActsOnCurrentModeListOnly ==
  [][ app'.op \in { "toggleSave", "remove", "clearAll" } =>
        /\ app'.studentMode = app.studentMode
        /\ app'.mode = app.mode
        /\ app'.storage.studentMode = app.storage.studentMode
        /\ IF app.studentMode
           THEN /\ app'.favorites = app.favorites
                /\ app'.storage.favorites = app.storage.favorites
           ELSE /\ app'.repository = app.repository
                /\ app'.storage.repository = app.storage.repository ]_vars

\* An item was removed from the Repository in student mode while the
\* Favourites list held books.
RemovedFromRepositoryFavouritesKept ==
  /\ app.op = "remove"
  /\ app.studentMode
  /\ app.favorites # << >>
  /\ Len(app.repository) = 1
  /\ app.favorites # app.repository

\* C27: after any sequence of setStudentMode and setMode operations, once the
\* effects of each operation have run, mode is "student" exactly when
\* studentMode is true.
ModeFollowsStudentMode ==
  (app.mode = "student") <=> app.studentMode

\* The keys of a list of books.
KeysOf(list) == { list[n].key : n \in 1..Len(list) }

\* No two positions of the list hold books with the same key.
NoDuplicateKeys(list) ==
  \A m, n \in 1..Len(list) : list[m].key = list[n].key => m = n

\* C28: after any sequence of toggleSave, remove and clearAll operations in
\* either mode, neither the Favourites nor the Repository list holds two books
\* with the same key, and a card reports its book as saved exactly when the
\* list of the current mode holds a book with its key.
SavedListsHaveNoDuplicateKeys ==
  /\ NoDuplicateKeys(app.favorites)
  /\ NoDuplicateKeys(app.repository)
  /\ \A book \in AppBooks :
       isSaved(app, book) <=>
         book.key \in KeysOf(IF app.studentMode THEN app.repository ELSE app.favorites)

\* In student mode the Repository holds the revised record and another book
\* after a save, the Favourites the earlier record of the same key: the card
\* of the earlier record reports it saved.
SavedUnderSameKeyInBothLists ==
  /\ app.op = "toggleSave"
  /\ app.studentMode
  /\ app.repository = << MapDoc(DocB), BookARevised >>
  /\ app.favorites = << MapDoc(DocA) >>
  /\ isSaved(app, MapDoc(DocA))

====
